---- MODULE Spec2Model ----
(***************************************************************************)
(* A model of ballchase.py: the paginated fetch with retries (grabGames),  *)
(* the two ingestion runs that merge fetched replays into the keyed store  *)
(* and rewrite data/database.json (refreshPlayer, buildDatabase), the      *)
(* filter (filterGames) and the query run (main): load, filter, the sort    *)
(* strategies, the sort and the report.                                    *)
(***************************************************************************)
EXTENDS Integers, Sequences, FiniteSets, TLC

VARIABLES
    pc,             \* position of the running process
    caller,         \* who called grabGames: "direct", "refresh" or "build"
    args,           \* the parsed command line (argparse.Namespace)
    served,         \* history: the pages the remote has answered with, in order
    next_url,       \* grabGames: cursor of the page to request next
    attempt,        \* grabGames: the retry loop's variable
    data_left,      \* grabGames: the pagination loop's flag
    games,          \* grabGames: the accumulated replays, and the list it returns
    last_outcome,   \* history: "ok" or the error kind of the latest request
    tries,          \* history: requests issued in a row for the current page
    issued,         \* history: requests issued by this grabGames call
    roster_idx,     \* buildDatabase: position in PLAYERS['data']
    database,       \* the in-memory store, an insertion-ordered dict
    artifact,       \* the content of data/database.json
    baseline,       \* history: the store as the current run loaded it
    input_games,    \* filterGames: the sequence it is given
    filtered_games, \* filterGames: the sequence it returns
    game,           \* main: the replay being rendered
    winloss,        \* main: the win/loss marker of the rendered line
    keyed,          \* history: filteredGames as it entered the sort of line 512
    idx,            \* main: position of the detail loop, then of the report loop
    resp,           \* main: the local "r" of the detail loop, unbound at first
    details,        \* history: how each detail request ended, in order
    error,          \* the exception that ended main, None while there is none
    output,         \* the lines appended to the file under output/
    proc,           \* two ingestion processes: position, store and batch of each
    overlapped      \* history: the two processes held a loaded store at once

fetchVars == <<served, next_url, attempt, data_left, games, last_outcome,
               tries, issued>>
storeVars == <<roster_idx, database, artifact, baseline>>
queryVars == <<input_games, filtered_games, game, winloss>>
sortVars == <<keyed, idx, resp, details, error, output>>
procVars == <<proc, overlapped>>
vars == <<pc, caller, args, fetchVars, storeVars, queryVars, sortVars, procVars>>

(***************************************************************************)
(* Bounds of the model.                                                    *)
(***************************************************************************)
MaxPages == 3       \* pages of one listing
MaxBatch == 3       \* records of one listing fetched by a direct call of grabGames
MaxIngestBatch == 2 \* records of one listing fetched within an ingestion run

None == "None"     \* None where texts are expected
NoId == <<>>        \* None where an id text is expected
Unset == 0          \* a number that tests false: no date floor, no threshold
NoGoals == -1       \* a team without the 'goals' key
NoKey == [kind |-> "none", num |-> 0, text |-> <<>>]    \* a replay without the 'sort' key

(***************************************************************************)
(* Program constants and configuration.                                    *)
(***************************************************************************)
max_retries == 3

\* data/players.json: the roster of tracked entities.
PLAYERS ==
    << [name |-> "ann", id |-> 1, platform |-> "steam"],
       [name |-> "bob", id |-> 2, platform |-> "epic"],
       [name |-> "cat", id |-> 3, platform |-> "steam"] >>

UnknownName == "zed"

\* The index of the first roster entry with that name, 0 when there is none.
RosterIndex(name) ==
    IF \E i \in 1..Len(PLAYERS) : PLAYERS[i].name = name
    THEN CHOOSE i \in 1..Len(PLAYERS) :
            /\ PLAYERS[i].name = name
            /\ \A j \in 1..(i - 1) : PLAYERS[j].name # name
    ELSE 0

\* str(n): the text of a number; ids in replays are such texts.
Str(n) == <<"str", n>>

\* A slip of lines 65-67: a name that is not found is taken for an id.
get_player_id_guess(name) ==
    IF RosterIndex(name) = 0 THEN <<"steam", name>>
    ELSE <<PLAYERS[RosterIndex(name)].platform, PLAYERS[RosterIndex(name)].id>>

\* Lines 62-67: "platform:id".
get_player_id(name) ==
    IF RosterIndex(name) = 0 THEN NoId
    ELSE <<PLAYERS[RosterIndex(name)].platform, PLAYERS[RosterIndex(name)].id>>

\* Lines 259-263: str(player['id']).
nameToId(name) ==
    IF RosterIndex(name) = 0 THEN NoId ELSE Str(PLAYERS[RosterIndex(name)].id)

(***************************************************************************)
(* Replay records as ingestion sees them: the id that keys the store and   *)
(* the date (the rest of the document is carried along untouched; two      *)
(* records with one id and different dates are different documents).       *)
(***************************************************************************)
ReplayIds == {"r1", "r2"}
IngestDates == {10, 20}
OneDay == 1

IngestRecords == [id : ReplayIds, date : IngestDates]

SeqsUpTo(S, n) == UNION {[1..k -> S] : k \in 0..n}

BatchCap(c) == IF c = "direct" THEN MaxBatch ELSE MaxIngestBatch

\* What the remote may answer to the request for page n when the call has
\* fetched k records so far: a list and, when the listing goes on, the cursor
\* of page n+1 as "next" (0 stands for no "next" key).  A listing is finite:
\* page MaxPages has no "next".
RemotePages(c, n, k) ==
    [list : SeqsUpTo(IngestRecords, BatchCap(c) - k),
     next : IF n < MaxPages THEN {0, n + 1} ELSE {0}]

RECURSIVE Flatten(_)
Flatten(pages) ==
    IF pages = <<>> THEN <<>>
    ELSE Flatten(SubSeq(pages, 1, Len(pages) - 1)) \o pages[Len(pages)].list

ErrorKinds == {"transient", "fatal4xx"}

(***************************************************************************)
(* The store: an insertion-ordered dict, a sequence of key/value entries   *)
(* with pairwise different keys.                                           *)
(***************************************************************************)
Keys(db) == {db[i].key : i \in 1..Len(db)}

Lookup(db, k) == (CHOOSE i \in 1..Len(db) : db[i].key = k)

Value(db, k) == db[Lookup(db, k)].val

\* database[k] = v
DictSet(db, k, v) ==
    IF k \in Keys(db)
    THEN [db EXCEPT ![Lookup(db, k)] = [key |-> k, val |-> v]]
    ELSE Append(db, [key |-> k, val |-> v])

\* Two slips of the merge: storing without the membership test, and
\* adding an entry without it.
MergeOverwrite(db, replay) == DictSet(db, replay.id, replay)

MergeAppend(db, replay) == Append(db, [key |-> replay.id, val |-> replay])

\* Lines 331-333 and 366-368: "if replay['id'] not in database".
MergeOne(db, replay) ==
    IF replay.id \notin Keys(db) THEN DictSet(db, replay.id, replay) ELSE db

\* A slip of lines 365-368: what a fetch that ended on a failure returned
\* is not merged.
RECURSIVE MergeUnlessFailed(_, _)
MergeUnlessFailed(db, batch) ==
    IF batch = <<>> \/ last_outcome # "ok" THEN db
    ELSE MergeUnlessFailed(MergeOne(db, Head(batch)), Tail(batch))

RECURSIVE MergeInsert(_, _)
MergeInsert(db, batch) ==
    IF batch = <<>> THEN db
    ELSE MergeInsert(MergeOne(db, Head(batch)), Tail(batch))

\* json.load of the artifact: parsing fails unless the text is complete;
\* the entries are put into a dict in file order.
RECURSIVE DictOf(_)
DictOf(entries) ==
    IF entries = <<>> THEN <<>>
    ELSE DictSet(DictOf(SubSeq(entries, 1, Len(entries) - 1)),
                 entries[Len(entries)].key, entries[Len(entries)].val)

Parses(file) == file.closed

\* A slip of lines 317-319: the run starts from an empty store.
json_load_fresh(file) == <<>>

json_load(file) == DictOf(file.entries)

Stores == {db \in SeqsUpTo([key : ReplayIds, val : IngestRecords], Cardinality(ReplayIds)) :
              /\ \A i \in 1..Len(db) : db[i].val.id = db[i].key
              /\ \A i, j \in 1..Len(db) : db[i].key = db[j].key => i = j}

\* A slip of line 348: the oldest stored date.
OldestDate(db) ==
    CHOOSE d \in {db[i].val.date : i \in 1..Len(db)} :
        \A i \in 1..Len(db) : d <= db[i].val.date

\* The newest stored date, by timestamp (line 348).
NewestDate(db) ==
    CHOOSE d \in {db[i].val.date : i \in 1..Len(db)} :
        \A i \in 1..Len(db) : db[i].val.date <= d

(***************************************************************************)
(* grabGames (lines 69-135).  The playlist and date parameters only go     *)
(* into the query string; what the remote answers is an input.             *)
(***************************************************************************)
DefaultArgs ==
    [player1 |-> None, player2 |-> None, date |-> Unset, type |-> None,
     remove_priv |-> FALSE, stacked_lobby |-> Unset, sort |-> None]

\* The history of requests and answers is kept for the direct call of
\* grabGames, where the statements about pagination are checked.
Noted(old, new) == IF caller = "direct" THEN new ELSE old

\* A slip of line 118: the page replaces what was accumulated.
ExtendReplace(gs, list) == list

\* Line 118: games.extend(data['list']).
Extend(gs, list) == gs \o list

\* A slip of line 128: the comparison is off by one.
LastAttemptOffByOne(a) == a = max_retries

\* Line 128: attempt == max_retries - 1.
LastAttempt(a) == a = max_retries - 1

\* Lines 80-104.
GrabEntry ==
    /\ pc = "grab_entry"
    /\ games' = <<>>
    /\ served' = <<>>
    /\ tries' = 0
    /\ issued' = 0
    /\ last_outcome' = "ok"
    /\ IF get_player_id(args.player1) = NoId
       THEN /\ pc' = "grab_return"
            /\ UNCHANGED <<data_left, next_url, attempt>>
       ELSE /\ pc' = "request"
            /\ data_left' = TRUE
            /\ next_url' = 1
            /\ attempt' = 0
    /\ UNCHANGED <<caller, args, storeVars, queryVars, sortVars, procVars>>

\* Lines 109-125: the request for page next_url succeeds; the retry loop is
\* left by "break" and the pagination loop tests data_left.
RequestOk ==
    /\ pc = "request"
    /\ \E page \in RemotePages(caller, next_url, Len(games)) :
        LET more == IF page.next # 0 THEN data_left ELSE FALSE
        IN /\ games' = Extend(games, page.list)
           /\ served' = Noted(served, Append(served, page))
           /\ next_url' = IF page.next # 0 THEN page.next ELSE next_url
           /\ data_left' = more
           /\ pc' = IF more THEN "request" ELSE "grab_return"
           /\ attempt' = IF more THEN 0 ELSE attempt
    /\ tries' = 0
    /\ issued' = Noted(issued, issued + 1)
    /\ last_outcome' = "ok"
    /\ UNCHANGED <<caller, args, storeVars, queryVars, sortVars, procVars>>

\* The retry loop after a failed request (lines 107, 127-133): the next
\* attempt of range(max_retries), or, when the range is used up, the test of
\* the pagination loop.
AfterFailure(left) ==
    IF attempt + 1 < max_retries
    THEN /\ attempt' = attempt + 1
         /\ pc' = "request"
    ELSE /\ attempt' = IF left THEN 0 ELSE attempt
         /\ pc' = IF left THEN "request" ELSE "grab_return"

\* Lines 127, 131-133: a RequestException before the last attempt; sleep.
RequestFailRetry ==
    /\ pc = "request"
    /\ ~LastAttempt(attempt)
    /\ \E kind \in ErrorKinds : last_outcome' = kind
    /\ AfterFailure(data_left)
    /\ tries' = Noted(tries, tries + 1)
    /\ issued' = Noted(issued, issued + 1)
    /\ UNCHANGED <<caller, args, served, next_url, data_left, games,
                   storeVars, queryVars, sortVars, procVars>>

\* Lines 127-130: a RequestException on the last attempt.
RequestFailLast ==
    /\ pc = "request"
    /\ LastAttempt(attempt)
    /\ \E kind \in ErrorKinds : last_outcome' = kind
    /\ data_left' = FALSE
    /\ AfterFailure(FALSE)
    /\ tries' = Noted(tries, tries + 1)
    /\ issued' = Noted(issued, issued + 1)
    /\ UNCHANGED <<caller, args, served, next_url, games,
                   storeVars, queryVars, sortVars, procVars>>

\* Line 135: the list is handed to the caller (its "replays").
GrabReturn ==
    /\ pc = "grab_return"
    /\ pc' = IF caller = "direct" THEN "returned" ELSE "merge"
    /\ UNCHANGED <<caller, args, served, next_url, attempt, data_left, games,
                   last_outcome, tries, issued, storeVars, queryVars, sortVars, procVars>>

(***************************************************************************)
(* refreshPlayer (lines 314-337) and buildDatabase (lines 339-372).        *)
(***************************************************************************)
EmptyFile == [entries |-> <<>>, closed |-> FALSE]

FileOf(db) == [entries |-> db, closed |-> TRUE]

\* The process ends: its memory is gone.  The store it held last stays
\* recorded in database and baseline, which the next run's load overwrites.
ProcessEnds ==
    /\ pc' = "idle"
    /\ caller' = "none"
    /\ args' = DefaultArgs
    /\ served' = <<>>
    /\ next_url' = 1
    /\ attempt' = 0
    /\ data_left' = TRUE
    /\ games' = <<>>
    /\ last_outcome' = "ok"
    /\ tries' = 0
    /\ issued' = 0
    /\ roster_idx' = 1

\* Lines 315-327: load the store; without -p1 the run ends here.
RefreshLoad ==
    /\ pc = "idle"
    /\ Parses(artifact)
    /\ \E p \in {None, PLAYERS[1].name, UnknownName} :
        /\ args' = [DefaultArgs EXCEPT !.player1 = p]
        /\ caller' = IF p = None THEN "none" ELSE "refresh"
        /\ pc' = IF p = None THEN "idle" ELSE "grab_entry"
    /\ database' = json_load(artifact)
    /\ baseline' = json_load(artifact)
    /\ UNCHANGED <<fetchVars, roster_idx, artifact, queryVars, sortVars, procVars>>

\* Lines 342-352: load the store and set the date floor one day before the
\* newest stored date; max() of an empty store raises and ends the run.
BuildLoad ==
    /\ pc = "idle"
    /\ Parses(artifact)
    /\ database' = json_load(artifact)
    /\ baseline' = json_load(artifact)
    /\ IF json_load(artifact) = <<>>
       THEN /\ pc' = "idle"
            /\ UNCHANGED <<caller, args, roster_idx>>
       ELSE /\ pc' = "build_next"
            /\ caller' = "build"
            /\ args' = [DefaultArgs EXCEPT
                            !.date = NewestDate(json_load(artifact)) - OneDay]
            /\ roster_idx' = 1
    /\ UNCHANGED <<fetchVars, artifact, queryVars, sortVars, procVars>>

\* Lines 358-363: the next roster entity.
BuildNext ==
    /\ pc = "build_next"
    /\ args' = [args EXCEPT !.player1 = PLAYERS[roster_idx].name]
    /\ pc' = "grab_entry"
    /\ UNCHANGED <<caller, fetchVars, storeVars, queryVars, sortVars, procVars>>

\* Lines 330-333 and 365-368: merge what grabGames returned.
Merge ==
    /\ pc = "merge"
    /\ database' = MergeInsert(database, games)
    /\ IF caller = "build"
       THEN /\ roster_idx' = roster_idx + 1
            /\ pc' = IF roster_idx < Len(PLAYERS) THEN "build_next" ELSE "open_write"
       ELSE /\ pc' = "open_write"
            /\ UNCHANGED roster_idx
    /\ UNCHANGED <<caller, args, fetchVars, artifact, baseline, queryVars, sortVars, procVars>>

\* Lines 335 and 370: open(..., "w") truncates the artifact.
OpenWrite ==
    /\ pc = "open_write"
    /\ artifact' = EmptyFile
    /\ pc' = "dump"
    /\ UNCHANGED <<caller, args, fetchVars, roster_idx, database, baseline, queryVars, sortVars, procVars>>

\* Lines 337 and 372: json.dump writes the entries one after the other.
DumpEntry ==
    /\ pc = "dump"
    /\ Len(artifact.entries) < Len(database)
    /\ artifact' = [artifact EXCEPT
                        !.entries = Append(@, database[Len(artifact.entries) + 1])]
    /\ UNCHANGED <<pc, caller, args, fetchVars, roster_idx, database, baseline, queryVars, sortVars, procVars>>

\* The end of the "with" block: the text is complete and the file closed.
CloseFile ==
    /\ pc = "dump"
    /\ Len(artifact.entries) = Len(database)
    /\ artifact' = [artifact EXCEPT !.closed = TRUE]
    /\ ProcessEnds
    /\ UNCHANGED <<database, baseline, queryVars, sortVars, procVars>>

\* The process is killed, or ends on an uncaught exception, at any point.
Crash ==
    /\ pc \notin {"idle"}
    /\ ProcessEnds
    /\ UNCHANGED <<database, artifact, baseline, queryVars, sortVars, procVars>>

(***************************************************************************)
(* Replay records as the query path sees them.  A date is the text of a    *)
(* timestamp with offset (local time and offset, in hours) or a text that  *)
(* strptime rejects; a team may lack its goals; a player entry carries the *)
(* id text of p['id']['id'].                                               *)
(***************************************************************************)
MaxGames == 2       \* replays in one filter input
MaxTeam == 2        \* players of one team
MaxGoals == 2       \* goals of one team

Now == 2000
MonthHours == 720

DateText(l, o) == [ok |-> TRUE, local |-> l, off |-> o]

BadDate == [ok |-> FALSE, local |-> 0, off |-> 0]

Stranger == 9

Entry(n) == [id |-> Str(n), score |-> 0]

Team(g, ids) ==
    [form |-> "dict", goals |-> g, players |-> [i \in 1..Len(ids) |-> Entry(ids[i])]]

\* Malformed substructure: a player entry without its 'id' dict, a replay
\* without the team's key, and a team that is null instead of a dict.
BadEntry == [id |-> NoId, score |-> 0]

AbsentTeam == [form |-> "absent", goals |-> NoGoals, players |-> <<>>]

NullTeam == [form |-> "null", goals |-> NoGoals, players |-> <<>>]

Replay(i, d, pl, b, o) ==
    [id |-> i, date |-> d, playlist_id |-> pl, overtime |-> "false", blue |-> b, orange |-> o,
     duration |-> 600, sort |-> NoKey]

RosterIds == {PLAYERS[i].id : i \in 1..Len(PLAYERS)}

\* strptime(replay['date'], "%Y-%m-%dT%H:%M:%S%z"): the instant, in hours.
DateParses(d) == d.ok

Instant(d) == d.local - d.off

\* today - relativedelta(months=args.date) (lines 279-280), months of 30 days.
Past(a) == Now - a.date * MonthHours

\* Lines 236-243.
GameTypeCode(game_type) ==
    CASE game_type = "1" -> "ranked-duels"
      [] game_type = "2" -> "ranked-doubles"
      [] game_type = "3" -> "ranked-standard"
      [] game_type = "p" -> "private"
      [] OTHER -> game_type

\* Line 245.
isGameType(replay, game_type) == replay.playlist_id = GameTypeCode(game_type)

\* [p['id']['id'] for p in replay.get(team, {}).get('players', [])]
TeamIds(team) == {team.players[i].id : i \in 1..Len(team.players)}

\* p['id']['id'] evaluates for every entry of the team.
Readable(team) == \A i \in 1..Len(team.players) : team.players[i].id # NoId

\* Lines 152-153 raise AttributeError when replay.get(team, {}) is None, blue
\* first, orange when the blue ids were read; lines 155-157 do not catch it.
hasPlayerRaises(replay, name) ==
    /\ nameToId(name) # NoId
    /\ \/ replay.blue.form = "null"
       \/ Readable(replay.blue) /\ replay.orange.form = "null"

\* Lines 147-157, when nothing escapes: an entry that cannot be read raises
\* KeyError or TypeError, which is caught and answered with False.
hasPlayer(replay, name) ==
    IF nameToId(name) = NoId THEN FALSE
    ELSE IF ~Readable(replay.blue) \/ ~Readable(replay.orange) THEN FALSE
    ELSE \/ nameToId(name) \in TeamIds(replay.blue)
         \/ nameToId(name) \in TeamIds(replay.orange)

\* A slip of lines 219-223: every player entry of a tracked entity counts.
RECURSIVE Appearances(_, _)
Appearances(entries, n) ==
    IF n = 0 THEN 0
    ELSE Appearances(entries, n - 1)
         + (IF \E i \in 1..Len(PLAYERS) : Str(PLAYERS[i].id) = entries[n].id
            THEN 1 ELSE 0)

countNotablesPerEntry(replay) ==
    Appearances(replay.blue.players \o replay.orange.players,
                Len(replay.blue.players) + Len(replay.orange.players))

\* Lines 219-223: the roster entries that hasPlayer finds, up to entry n.
RECURSIVE CountUpTo(_, _)
CountUpTo(replay, n) ==
    IF n = 0 THEN 0
    ELSE CountUpTo(replay, n - 1)
         + (IF hasPlayer(replay, PLAYERS[n].name) THEN 1 ELSE 0)

countNotables(replay) == CountUpTo(replay, Len(PLAYERS))

\* A slip of lines 284-304: the private filter is skipped when a participant
\* filter is set.
KeepsLoosePrivate(a, replay) ==
    /\ a.date # Unset => (DateParses(replay.date) /\ ~(Instant(replay.date) < Past(a)))
    /\ a.type # None => isGameType(replay, a.type)
    /\ (a.remove_priv /\ a.player1 = None) => ~isGameType(replay, "p")
    /\ a.player1 # None => hasPlayer(replay, a.player1)
    /\ a.player2 # None => hasPlayer(replay, a.player2)
    /\ a.stacked_lobby # Unset => ~(countNotables(replay) < a.stacked_lobby)

\* Lines 283-310, one replay: TRUE when it is appended.  A date that does
\* not parse raises ValueError, which line 308 turns into "continue".
Keeps(a, replay) ==
    IF a.date # Unset /\ ~DateParses(replay.date) THEN FALSE
    ELSE IF a.date # Unset /\ Instant(replay.date) < Past(a) THEN FALSE
    ELSE IF a.type # None /\ ~isGameType(replay, a.type) THEN FALSE
    ELSE IF a.remove_priv /\ isGameType(replay, "p") THEN FALSE
    ELSE IF a.player1 # None /\ ~hasPlayer(replay, a.player1) THEN FALSE
    ELSE IF a.player2 # None /\ ~hasPlayer(replay, a.player2) THEN FALSE
    ELSE IF a.stacked_lobby # Unset /\ countNotables(replay) < a.stacked_lobby THEN FALSE
    ELSE TRUE

\* Lines 283-310, one replay: an AttributeError of hasPlayer, raised at the
\* first participant or stacked-lobby test that the replay reaches, is not
\* among the exceptions of line 308 and leaves filterGames.
Escapes(a, replay) ==
    /\ a.date # Unset => (DateParses(replay.date) /\ ~(Instant(replay.date) < Past(a)))
    /\ a.type # None => isGameType(replay, a.type)
    /\ a.remove_priv => ~isGameType(replay, "p")
    /\ IF a.player1 # None THEN hasPlayerRaises(replay, a.player1)
       ELSE IF a.player2 # None THEN hasPlayerRaises(replay, a.player2)
       ELSE a.stacked_lobby # Unset /\ hasPlayerRaises(replay, PLAYERS[1].name)

filterRaises(a, gs) == \E i \in 1..Len(gs) : Escapes(a, gs[i])

\* Lines 275-312, when nothing escapes.
RECURSIVE filterGames(_, _)
filterGames(a, gs) ==
    IF gs = <<>> THEN <<>>
    ELSE LET rest == filterGames(a, SubSeq(gs, 1, Len(gs) - 1))
         IN IF Keeps(a, gs[Len(gs)]) THEN Append(rest, gs[Len(gs)]) ELSE rest

\* filterGames called on a sequence of replays.
FilterApply ==
    /\ pc = "filter_entry"
    /\ IF filterRaises(args, input_games)
       THEN /\ pc' = "raised"
            /\ UNCHANGED filtered_games
       ELSE /\ pc' = "filtered"
            /\ filtered_games' = filterGames(args, input_games)
    /\ UNCHANGED <<caller, args, fetchVars, storeVars, input_games, game, winloss,
                   sortVars, procVars>>

(***************************************************************************)
(* The win/loss marker of a report line (lines 159-208, 525-568).          *)
(***************************************************************************)
\* Lines 170-182.
getPlayerTeam(replay, name) ==
    IF nameToId(name) = NoId THEN "NEITHER"
    ELSE IF nameToId(name) \in TeamIds(replay.blue) THEN "BLUE"
    ELSE IF nameToId(name) \in TeamIds(replay.orange) THEN "ORANGE"
    ELSE "NEITHER"

\* int(replay.get(team, {}).get('goals', 0))
GoalsOf(team) == IF team.goals = NoGoals THEN 0 ELSE team.goals

\* Lines 197-205.
getWinner(replay) ==
    IF GoalsOf(replay.blue) > GoalsOf(replay.orange) THEN "BLUE"
    ELSE IF GoalsOf(replay.orange) > GoalsOf(replay.blue) THEN "ORANGE"
    ELSE "NEITHER"

\* Lines 525-541 and 566-568: a replay without 'overtime' raises at line 527
\* and renders as 'buggy game'.
WinLossOf(a, replay) ==
    IF replay.overtime = None THEN "buggy game"
    ELSE IF a.player1 = None THEN ""
    ELSE IF getPlayerTeam(replay, a.player1) = getWinner(replay) THEN "WIN"
    ELSE "LOSS"

\* One pass of the report loop of main.
ReportLine ==
    /\ pc = "report_entry"
    /\ winloss' = WinLossOf(args, game)
    /\ pc' = "reported"
    /\ UNCHANGED <<caller, args, fetchVars, storeVars, input_games, filtered_games, game,
                   sortVars, procVars>>

(***************************************************************************)
(* Sort keys (game['sort']).  A key is a text or a number, as in Python;   *)
(* a text is the sequence of the code points of its characters, and texts  *)
(* compare as Python's str does, code point by code point.                 *)
(***************************************************************************)
TextKey(t) == [kind |-> "str", num |-> 0, text |-> t]

NumKey(n) == [kind |-> "num", num |-> n, text |-> <<>>]

\* str(n) of an integer: its decimal digits, '-' (45) in front when negative.
RECURSIVE Digits(_)
Digits(n) == IF n < 10 THEN <<48 + n>> ELSE Append(Digits(n \div 10), 48 + (n % 10))

DecimalText(n) == IF n < 0 THEN <<45>> \o Digits(0 - n) ELSE Digits(n)

\* int(t) and float(t) of a decimal text.
RECURSIVE DigitsValue(_)
DigitsValue(t) ==
    IF t = <<>> THEN 0
    ELSE 10 * DigitsValue(SubSeq(t, 1, Len(t) - 1)) + (t[Len(t)] - 48)

IntOf(t) == IF t[1] = 45 THEN 0 - DigitsValue(Tail(t)) ELSE DigitsValue(t)

\* t.zfill(w): zeros after the sign, up to width w.
RECURSIVE Zeros(_)
Zeros(n) == IF n <= 0 THEN <<>> ELSE <<48>> \o Zeros(n - 1)

zfill(t, w) ==
    IF t # <<>> /\ t[1] = 45
    THEN <<45>> \o Zeros(w - Len(t)) \o Tail(t)
    ELSE Zeros(w - Len(t)) \o t

\* The text '-1' that every strategy starts from.
Sentinel == TextKey(DecimalText(-1))

\* a < b for two texts.
RECURSIVE TextLess(_, _)
TextLess(a, b) ==
    IF b = <<>> THEN FALSE
    ELSE IF a = <<>> THEN TRUE
    ELSE IF Head(a) # Head(b) THEN Head(a) < Head(b)
    ELSE TextLess(Tail(a), Tail(b))

\* a < b for two keys of one kind.
KeyLess(a, b) ==
    IF a.kind = "num" THEN a.num < b.num ELSE TextLess(a.text, b.text)

\* '<' between a str and a number raises TypeError; a sort of two or more
\* items compares every item with some other one, so it raises exactly when
\* the keys are not all of one kind.
Comparable(items) ==
    \A i, j \in 1..Len(items) : items[i].key.kind = items[j].key.kind

\* A slip of list.sort: an item goes in front of the items with an equal key.
InsertFirst(sorted, item) ==
    LET before == {i \in 1..Len(sorted) : ~KeyLess(sorted[i].key, item.key)}
        at == IF before = {} THEN Len(sorted) + 1
              ELSE CHOOSE i \in before : \A j \in before : i <= j
    IN SubSeq(sorted, 1, at - 1) \o <<item>> \o SubSeq(sorted, at, Len(sorted))

\* list.sort is stable: an item goes behind the items with an equal key.
Insert(sorted, item) ==
    LET after == {i \in 1..Len(sorted) : KeyLess(item.key, sorted[i].key)}
        at == IF after = {} THEN Len(sorted) + 1
              ELSE CHOOSE i \in after : \A j \in after : i <= j
    IN SubSeq(sorted, 1, at - 1) \o <<item>> \o SubSeq(sorted, at, Len(sorted))

\* list.sort(key=...) on items decorated with their keys.
RECURSIVE StableSort(_)
StableSort(items) ==
    IF items = <<>> THEN <<>>
    ELSE Insert(StableSort(SubSeq(items, 1, Len(items) - 1)), items[Len(items)])

Undecorate(items) == [i \in 1..Len(items) |-> items[i].val]

\* The text of a date sorts by its local time, then by its offset.
DateKey(d) == TextKey(<<d.local, d.off>>)

\* Lines 402-403: list(database.values()), sorted by the date text.
DateSorted(db) ==
    Undecorate(StableSort([i \in 1..Len(db) |->
        [key |-> DateKey(db[i].val.date), val |-> db[i].val]]))

\* Line 512: filteredGames.sort(key=lambda x: x['sort']).
KeySorted(gs) ==
    Undecorate(StableSort([i \in 1..Len(gs) |-> [key |-> gs[i].sort, val |-> gs[i]]]))

SortRaises(gs) == ~Comparable([i \in 1..Len(gs) |-> [key |-> gs[i].sort, val |-> gs[i]]])

(***************************************************************************)
(* The sort strategies of main (lines 416-509).                            *)
(***************************************************************************)
Thousand == 1000
Width == 5

\* game['blue']['players'] + game['orange']['players']
AllPlayers(g) == g.blue.players \o g.orange.players

\* Lines 418-429: the score of the first entry of args.player1.
ScoreKey(a, g) ==
    LET hits == {i \in 1..Len(AllPlayers(g)) : AllPlayers(g)[i].id = nameToId(a.player1)}
    IN IF hits = {} THEN Sentinel
       ELSE NumKey(AllPlayers(g)[CHOOSE i \in hits : \A j \in hits : i <= j].score)

\* A slip of line 445: the latest qualifying score replaces the key.
ThousandStepLatest(key, entry, notable) ==
    IF entry.id = Str(notable.id) /\ entry.score > Thousand
    THEN TextKey(DecimalText(entry.score))
    ELSE key

\* Lines 441-446: one player entry looked at for one roster entity.
ThousandStep(key, entry, notable) ==
    IF /\ entry.id = Str(notable.id)
       /\ entry.score > Thousand
       /\ IntOf(key.text) < entry.score
    THEN TextKey(DecimalText(entry.score))
    ELSE key

\* Lines 435-446: the roster loop around the player loop; step k looks at
\* player ((k-1) mod P)+1 for entity ((k-1) div P)+1.
RECURSIVE ThousandFold(_, _)
ThousandFold(g, k) ==
    IF k = 0 THEN Sentinel
    ELSE LET P == Len(AllPlayers(g))
         IN ThousandStep(ThousandFold(g, k - 1),
                         AllPlayers(g)[((k - 1) % P) + 1],
                         PLAYERS[((k - 1) \div P) + 1])

ThousandKey(g) == ThousandFold(g, Len(PLAYERS) * Len(AllPlayers(g)))

\* A slip of lines 466-473: the key is the score, not the score per minute.
SpmStepScore(key, entry, notable, duration) ==
    IF entry.id = Str(notable.id) /\ IntOf(key.text) < entry.score
    THEN TextKey(zfill(DecimalText(entry.score), Width))
    ELSE key

\* Lines 465-473: spm = score / (duration / 60), compared with float(sort)
\* and stored as str(int(spm)).zfill(5).  A duration of 0 raises
\* ZeroDivisionError at every matching entry, which line 474 catches: the
\* key stays as it was.
SpmStep(key, entry, notable, duration) ==
    IF entry.id = Str(notable.id) /\ duration # 0
          /\ IntOf(key.text) * duration < entry.score * 60
    THEN TextKey(zfill(DecimalText((entry.score * 60) \div duration), Width))
    ELSE key

RECURSIVE SpmFold(_, _)
SpmFold(g, k) ==
    IF k = 0 THEN Sentinel
    ELSE LET P == Len(AllPlayers(g))
         IN SpmStep(SpmFold(g, k - 1),
                    AllPlayers(g)[((k - 1) % P) + 1],
                    PLAYERS[((k - 1) \div P) + 1],
                    g.duration)

SpmKey(g) == SpmFold(g, Len(PLAYERS) * Len(AllPlayers(g)))

WithKey(g, key) == [g EXCEPT !.sort = key]

\* Lines 417-429, 434-454 and 456-473: filteredGames after the strategy.
Strategy(a, gs) ==
    CASE a.sort = "score" -> [i \in 1..Len(gs) |-> WithKey(gs[i], ScoreKey(a, gs[i]))]
      [] a.sort = "thousand" ->
            SelectSeq([i \in 1..Len(gs) |-> WithKey(gs[i], ThousandKey(gs[i]))],
                      LAMBDA g : g.sort # Sentinel)
      [] a.sort = "spm" -> [i \in 1..Len(gs) |-> WithKey(gs[i], SpmKey(gs[i]))]
      [] OTHER -> gs

(***************************************************************************)
(* main (lines 393-572), step by step.  The dicts of the replays are       *)
(* shared by database, games and filteredGames; main reads only            *)
(* filteredGames after the filter, which is where the keys are shown.      *)
(***************************************************************************)
\* Lines 399-409: load the store, sort by date, filter.
MainLoad ==
    /\ pc = "main_entry"
    /\ Parses(artifact)
    /\ database' = json_load(artifact)
    /\ baseline' = json_load(artifact)
    /\ input_games' = DateSorted(json_load(artifact))
    /\ IF filterRaises(args, DateSorted(json_load(artifact)))
       THEN /\ pc' = "aborted"
            /\ error' = "AttributeError"
            /\ UNCHANGED filtered_games
       ELSE /\ pc' = IF args.sort # None THEN "strategy" ELSE "report"
            /\ filtered_games' = filterGames(args, DateSorted(json_load(artifact)))
            /\ UNCHANGED error
    /\ UNCHANGED <<caller, args, fetchVars, roster_idx, artifact, game, winloss,
                   keyed, idx, resp, details, output, procVars>>

\* Lines 415-477: the strategies computed from the stored replays; the two
\* that ask the remote for details start their loop.
ApplyStrategy ==
    /\ pc = "strategy"
    /\ filtered_games' = Strategy(args, filtered_games)
    /\ pc' = IF args.sort \in {"avg_speed", "car"} /\ filtered_games # <<>>
             THEN "detail" ELSE "sort"
    /\ UNCHANGED <<caller, args, fetchVars, storeVars, input_games, game, winloss,
                   sortVars, procVars>>

Speeds == {1400, 1600}
Cars == {<<70>>, <<79>>}

\* What a detail request may end with: no response (requests.get raises), a
\* body that is not JSON (r.json() raises), or a document, in which the
\* entry of args.player1 is found with its value or not found.
DetailOutcomes(a) ==
    {[kind |-> "noconn", key |-> Sentinel], [kind |-> "nonjson", key |-> Sentinel],
     [kind |-> "ok", key |-> Sentinel]}
    \cup (IF nameToId(a.player1) = NoId THEN {}
          ELSE IF a.sort = "avg_speed"
               THEN {[kind |-> "ok", key |-> NumKey(s)] : s \in Speeds}
               ELSE {[kind |-> "ok", key |-> TextKey(c)] : c \in Cars})

\* Lines 486-509, one pass of the loop.  Without a response the handler of
\* line 505 prints r, which is unbound until a request has returned one:
\* UnboundLocalError ends main.
DetailRequest ==
    /\ pc = "detail"
    /\ \E o \in DetailOutcomes(args) :
        /\ details' = Append(details, o.kind)
        /\ filtered_games' = [filtered_games EXCEPT ![idx] = WithKey(@, o.key)]
        /\ resp' = IF o.kind = "noconn" THEN resp ELSE "bound"
        /\ IF o.kind = "noconn" /\ resp = "unbound"
           THEN /\ pc' = "aborted"
                /\ error' = "UnboundLocalError"
                /\ UNCHANGED idx
           ELSE /\ pc' = IF idx < Len(filtered_games) THEN "detail" ELSE "sort"
                /\ idx' = idx + 1
                /\ UNCHANGED error
    /\ UNCHANGED <<caller, args, fetchVars, storeVars, input_games, game, winloss,
                   keyed, output, procVars>>

\* Line 512; a TypeError of the comparison ends main.
Sort ==
    /\ pc = "sort"
    /\ keyed' = filtered_games
    /\ idx' = 1
    /\ IF SortRaises(filtered_games)
       THEN /\ pc' = "aborted"
            /\ error' = "TypeError"
            /\ UNCHANGED filtered_games
       ELSE /\ pc' = "report"
            /\ filtered_games' = KeySorted(filtered_games)
            /\ UNCHANGED error
    /\ UNCHANGED <<caller, args, fetchVars, storeVars, input_games, game, winloss,
                   resp, details, output, procVars>>

StorePath == <<"data", <<"database.json">> >>

\* A slip of line 570: the lines go to the store's file.
ReportPathStore(a) == StorePath

\* Lines 520-521 and 570: os.path.join('output', filename).
ReportPath(a) == <<"output", <<a.player1, a.player2, a.type, a.sort, a.date>> >>

\* Lines 563-566: the rendered line with its key, '' without a strategy.
LineOf(a, g) ==
    [id |-> g.id, winloss |-> WinLossOf(a, g),
     sort |-> IF a.sort = None THEN TextKey(<<>>) ELSE g.sort]

\* Lines 518-572, one pass of the loop: the line is appended to the file.
ReportGame ==
    /\ pc = "report"
    /\ IF idx > Len(filtered_games)
       THEN /\ pc' = "done"
            /\ UNCHANGED <<idx, game, winloss, output, artifact>>
       ELSE /\ pc' = "report"
            /\ idx' = idx + 1
            /\ game' = filtered_games[idx]
            /\ winloss' = WinLossOf(args, filtered_games[idx])
            /\ IF ReportPath(args) = StorePath
               THEN /\ artifact' = [artifact EXCEPT !.entries = Append(@,
                                        [key |-> "line", val |-> LineOf(args, filtered_games[idx])])]
                    /\ UNCHANGED output
               ELSE /\ output' = Append(output, LineOf(args, filtered_games[idx]))
                    /\ UNCHANGED artifact
    /\ UNCHANGED <<caller, args, fetchVars, roster_idx, database, baseline,
                   input_games, filtered_games, keyed, resp, details, error, procVars>>

(***************************************************************************)
(* Two refreshPlayer runs (lines 314-337) as two processes that share      *)
(* data/database.json, each with its own store in memory.  What grabGames  *)
(* returns to a run is an input.  The text of json.dump leaves the         *)
(* process's buffer when the file is closed, and lands at the start of the *)
(* file.                                                                   *)
(***************************************************************************)
Procs == {1, 2}

IdleProc == [pc |-> "idle", database |-> <<>>, replays |-> <<>>, loaded |-> <<>>]

soloVars == <<pc, caller, args, fetchVars, roster_idx, database, baseline, queryVars, sortVars>>

Other(p) == CHOOSE q \in Procs : q # p

\* The process holds a store it loaded and has not written back yet.
Holding(p) == proc[p].pc \in {"fetch", "merge", "open_write", "close"}

\* Lines 318-319: json.load raises on a text that is not complete.
PLoad(p) ==
    /\ proc[p].pc = "idle"
    /\ proc' = [proc EXCEPT ![p] =
                    IF Parses(artifact)
                    THEN [pc |-> "fetch", database |-> json_load(artifact),
                          replays |-> <<>>, loaded |-> json_load(artifact)]
                    ELSE [@ EXCEPT !.pc = "failed"]]
    /\ overlapped' = (overlapped \/ Holding(Other(p)))
    /\ UNCHANGED <<artifact, soloVars>>

\* Line 329: replays = grabGames(args).
PFetch(p) ==
    /\ proc[p].pc = "fetch"
    /\ \E batch \in SeqsUpTo(IngestRecords, MaxIngestBatch) :
        proc' = [proc EXCEPT ![p].replays = batch, ![p].pc = "merge"]
    /\ UNCHANGED <<overlapped, artifact, soloVars>>

\* Lines 330-333.
PMerge(p) ==
    /\ proc[p].pc = "merge"
    /\ proc' = [proc EXCEPT ![p].database = MergeInsert(@, proc[p].replays),
                            ![p].pc = "open_write"]
    /\ UNCHANGED <<overlapped, artifact, soloVars>>

\* Line 335: open(..., "w") truncates the file.
POpenWrite(p) ==
    /\ proc[p].pc = "open_write"
    /\ artifact' = EmptyFile
    /\ proc' = [proc EXCEPT ![p].pc = "close"]
    /\ UNCHANGED <<overlapped, soloVars>>

\* Lines 336-337 and the end of the "with" block: the text is written over
\* what the file holds; a longer text that the other process wrote since the
\* truncation keeps its tail, and the file does not parse.
PClose(p) ==
    /\ proc[p].pc = "close"
    /\ artifact' =
          IF Len(artifact.entries) > Len(proc[p].database)
          THEN [entries |-> proc[p].database \o
                            SubSeq(artifact.entries, Len(proc[p].database) + 1,
                                   Len(artifact.entries)),
                closed |-> FALSE]
          ELSE FileOf(proc[p].database)
    /\ proc' = [proc EXCEPT ![p].pc = "done"]
    /\ UNCHANGED <<overlapped, soloVars>>

(***************************************************************************)
(* Specifications.                                                         *)
(***************************************************************************)
InitFetchVars ==
    /\ served = <<>>
    /\ next_url = 1
    /\ attempt = 0
    /\ data_left = TRUE
    /\ games = <<>>
    /\ last_outcome = "ok"
    /\ tries = 0
    /\ issued = 0

InitQueryVars ==
    /\ input_games = <<>>
    /\ filtered_games = <<>>
    /\ game = None
    /\ winloss = None

InitSortVars ==
    /\ keyed = <<>>
    /\ idx = 1
    /\ resp = "unbound"
    /\ details = <<>>
    /\ error = None
    /\ output = <<>>

InitProcVars ==
    /\ proc = [p \in Procs |-> IdleProc]
    /\ overlapped = FALSE

\* grabGames called on its own.
InitFetch ==
    /\ pc = "grab_entry"
    /\ caller = "direct"
    /\ args \in {[DefaultArgs EXCEPT !.player1 = p] : p \in {PLAYERS[1].name, UnknownName}}
    /\ InitFetchVars
    /\ roster_idx = 1
    /\ database = <<>>
    /\ artifact = FileOf(<<>>)
    /\ baseline = <<>>
    /\ InitQueryVars
    /\ InitSortVars
    /\ InitProcVars

NextFetch ==
    \/ GrabEntry
    \/ RequestOk
    \/ RequestFailRetry
    \/ RequestFailLast
    \/ GrabReturn

SpecFetch == InitFetch /\ [][NextFetch]_vars

\* The process runs on: requests block until they answer or fail.
FairSpecFetch == SpecFetch /\ WF_vars(NextFetch)

\* Ingestion runs, one after the other, over a store set up beforehand.
InitIngest ==
    /\ pc = "idle"
    /\ caller = "none"
    /\ args = DefaultArgs
    /\ InitFetchVars
    /\ roster_idx = 1
    /\ artifact \in {FileOf(db) : db \in Stores}
    /\ database = json_load(artifact)
    /\ baseline = json_load(artifact)
    /\ InitQueryVars
    /\ InitSortVars
    /\ InitProcVars

NextIngest ==
    \/ RefreshLoad
    \/ BuildLoad
    \/ BuildNext
    \/ GrabEntry
    \/ RequestOk
    \/ RequestFailRetry
    \/ RequestFailLast
    \/ GrabReturn
    \/ Merge
    \/ OpenWrite
    \/ DumpEntry
    \/ CloseFile
    \/ Crash

SpecIngest == InitIngest /\ [][NextIngest]_vars

\* buildDatabase runs that are not killed: the process runs on, and every
\* request answers or fails.
NextBuild ==
    \/ BuildLoad
    \/ BuildNext
    \/ GrabEntry
    \/ RequestOk
    \/ RequestFailRetry
    \/ RequestFailLast
    \/ GrabReturn
    \/ Merge
    \/ OpenWrite
    \/ DumpEntry
    \/ CloseFile

FairSpecBuild == InitIngest /\ [][NextBuild]_vars /\ WF_vars(NextBuild)

(***************************************************************************)
(* Properties of the fetch (grabGames called on its own).                  *)
(***************************************************************************)
Known == get_player_id(args.player1) # NoId

Ended == pc \in {"grab_return", "returned"}

\* The pages the call has requested: those answered and the one being tried.
PagesAsked == Len(served) + (IF tries > 0 THEN 1 ELSE 0)

\* Every page answered so far pointed to the next one, except a last one.
ChainFollowed(last) ==
    \A i \in 1..Len(served) :
        served[i].next = (IF i = Len(served) /\ last THEN 0 ELSE i + 1)

\* C3: when every page was obtained within its retry budget, grabGames
\* returns the concatenation of the pages' lists in cursor order, each page
\* once, and the page it stopped at is the first one without "next".
C3_PaginationComplete ==
    (pc = "returned" /\ Known /\ last_outcome = "ok") =>
        /\ Len(served) >= 1
        /\ ChainFollowed(TRUE)
        /\ games = Flatten(served)

C3_Witness ==
    /\ pc = "returned"
    /\ last_outcome = "ok"
    /\ Len(served) = 3
    /\ \A i \in 1..3 : Len(served[i].list) = 1
    /\ issued > Len(served)

\* C4: when the request for page k has failed on every allowed attempt, the
\* call has ended without a further request and returns the records of
\* pages 1..k-1 in order.
C4_PartialResult ==
    (Known /\ last_outcome # "ok" /\ tries = max_retries) =>
        /\ Ended
        /\ next_url = Len(served) + 1
        /\ ChainFollowed(FALSE)
        /\ games = Flatten(served)

C4_Witness ==
    /\ pc = "returned"
    /\ last_outcome # "ok"
    /\ tries = max_retries
    /\ Len(served) = 1
    /\ Len(games) = 2

\* C5: no page is requested more than max_retries times in a row, the
\* requests of a call number at most pages x max_retries, and the call
\* returns under every pattern of failures.
C5_BoundedRetry ==
    /\ [](/\ tries <= max_retries
          /\ PagesAsked <= MaxPages
          /\ issued <= PagesAsked * max_retries)
    /\ <>(pc = "returned")

C5_Witness ==
    /\ pc = "returned"
    /\ Len(served) = MaxPages - 1
    /\ issued = MaxPages * max_retries

\* C6: a request that fails with a 4xx error is not retried: the page has
\* had one attempt and the fetch has ended.
C6_FatalNotRetried ==
    last_outcome = "fatal4xx" => (tries = 1 /\ Ended)

(***************************************************************************)
(* Properties of the ingestion runs.                                       *)
(***************************************************************************)
Kept(old, new) ==
    \A i \in 1..Len(old) :
        /\ old[i].key \in Keys(new)
        /\ Value(new, old[i].key) = old[i].val

FirstOf(batch, i) == \A j \in 1..(i - 1) : batch[j].id # batch[i].id

\* C1: a running ingestion never removes or changes a stored entry, and a
\* merge stores, for an id that was not there, the first record of the batch
\* with that id.
C1_FirstWriteWins ==
    [][/\ pc # "idle" => Kept(database, database')
       /\ (pc = "merge" /\ pc' # "idle") =>
            \A i \in 1..Len(games) :
                (games[i].id \notin Keys(database) /\ FirstOf(games, i)) =>
                    /\ games[i].id \in Keys(database')
                    /\ Value(database', games[i].id) = games[i]]_vars

C1_Witness ==
    /\ pc = "open_write"
    /\ \E i \in 1..Len(games) :
        /\ games[i].id \in Keys(baseline)
        /\ Value(database, games[i].id) # games[i]
    /\ \E i \in 1..Len(games) : games[i].id \notin Keys(baseline)

AfterMerge ==
    \/ pc \in {"open_write", "dump"}
    \/ pc = "build_next" /\ roster_idx > 1

\* C2: merging the batch that was just merged once more leaves the store as
\* it is, in size and content.
C2_MergeIdempotent ==
    AfterMerge =>
        /\ MergeInsert(database, games) = database
        /\ \A k \in Keys(database) :
             Cardinality({i \in 1..Len(database) : database[i].key = k}) = 1

C2_Witness ==
    /\ pc = "open_write"
    /\ Len(games) = 2
    /\ games[1].id = games[2].id
    /\ Len(database) > Len(baseline)

\* C7: the artifact always holds a complete store: the one the run loaded
\* or the merged one.
C7_AllOrNothing ==
    /\ Parses(artifact)
    /\ \/ json_load(artifact) = baseline
       \/ json_load(artifact) = database

\* The inputs of the filter: every combination of criteria over short
\* sequences of a few replays, and over single replays of every line-up.
FilterArgs ==
    [player1 : {None, PLAYERS[1].name}, player2 : {None, PLAYERS[2].name},
     date : {Unset, 2}, type : {None, "1", "p"}, remove_priv : BOOLEAN,
     stacked_lobby : {Unset} \cup (1..(Len(PLAYERS) + 1)), sort : {None}]

\* Dates: well after the two-month floor (hour 560); before it, though its
\* local time reads 561; and a text that does not parse.
FilterDates ==
    {DateText(1900, 0), DateText(561, 2), BadDate}

LineUps(ids) == SeqsUpTo(ids, MaxTeam) \X SeqsUpTo(ids, MaxTeam)

CoreLineUps == {<< <<1>>, <<2>> >>, << <<Stranger>>, <<1, 3>> >>}

CoreReplays ==
    {Replay("r1", d, pl, Team(1, lu[1]), Team(0, lu[2])) :
        d \in FilterDates, pl \in {"ranked-duels", "private"}, lu \in CoreLineUps}

RichReplays ==
    {Replay("r1", DateText(1900, 0), "ranked-duels", Team(1, lu[1]), Team(0, lu[2])) :
        lu \in LineUps(RosterIds)}

InitFilter ==
    /\ pc = "filter_entry"
    /\ caller = "none"
    /\ args \in FilterArgs
    /\ input_games \in SeqsUpTo(CoreReplays, MaxGames) \cup {<<r>> : r \in RichReplays}
    /\ filtered_games = <<>>
    /\ game = None
    /\ winloss = None
    /\ InitFetchVars
    /\ roster_idx = 1
    /\ database = <<>>
    /\ artifact = FileOf(<<>>)
    /\ baseline = <<>>
    /\ InitSortVars
    /\ InitProcVars

NextFilter == FilterApply

SpecFilter == InitFilter /\ [][NextFilter]_vars

\* The inputs of a report line.
ReportGames ==
    {[Replay("r1", DateText(1900, 0), "ranked-duels", Team(bg, lu[1]), Team(og, lu[2]))
        EXCEPT !.overtime = ot] :
        bg \in {NoGoals} \cup (0..MaxGoals), og \in {NoGoals} \cup (0..MaxGoals),
        lu \in LineUps({1, Stranger}), ot \in {"false", None}}

InitReport ==
    /\ pc = "report_entry"
    /\ caller = "none"
    /\ args \in {[DefaultArgs EXCEPT !.player1 = p] : p \in {None, PLAYERS[1].name, UnknownName}}
    /\ game \in ReportGames
    /\ winloss = None
    /\ input_games = <<>>
    /\ filtered_games = <<>>
    /\ InitFetchVars
    /\ roster_idx = 1
    /\ database = <<>>
    /\ artifact = FileOf(<<>>)
    /\ baseline = <<>>
    /\ InitSortVars
    /\ InitProcVars

NextReport == ReportLine

SpecReport == InitReport /\ [][NextReport]_vars

\* The filter over replays with well-formed and malformed teams, with the
\* participant and stacked-lobby criteria.
TeamShapes ==
    {Team(0, <<1, 2>>), Team(0, <<Stranger>>), AbsentTeam, NullTeam,
     [Team(0, <<1>>) EXCEPT !.players = Append(@, BadEntry)]}

ShapedReplays ==
    {Replay("r1", DateText(1900, 0), "ranked-duels", b, o) : b \in TeamShapes, o \in TeamShapes}

ShapedArgs ==
    {[DefaultArgs EXCEPT !.player1 = p, !.player2 = q, !.stacked_lobby = k] :
        p \in {None, PLAYERS[1].name}, q \in {None, PLAYERS[2].name}, k \in {Unset, 1, 2}}

InitShaped ==
    /\ pc = "filter_entry"
    /\ caller = "none"
    /\ args \in ShapedArgs
    /\ input_games \in SeqsUpTo(ShapedReplays, MaxGames)
    /\ filtered_games = <<>>
    /\ game = None
    /\ winloss = None
    /\ InitFetchVars
    /\ roster_idx = 1
    /\ database = <<>>
    /\ artifact = FileOf(<<>>)
    /\ baseline = <<>>
    /\ InitSortVars
    /\ InitProcVars

SpecShaped == InitShaped /\ [][NextFilter]_vars

\* Names that may miss the roster, at each place that looks a name up: the
\* direct call of grabGames, the refreshPlayer runs and the filter.
InitMiss ==
    /\ pc = "filter_entry"
    /\ caller = "none"
    /\ args \in {[DefaultArgs EXCEPT !.player1 = p, !.player2 = q] :
                    p \in {None, PLAYERS[1].name, UnknownName}, q \in {None, UnknownName}}
    /\ input_games \in SeqsUpTo(CoreReplays, MaxGames)
    /\ filtered_games = <<>>
    /\ game = None
    /\ winloss = None
    /\ InitFetchVars
    /\ roster_idx = 1
    /\ database = <<>>
    /\ artifact = FileOf(<<>>)
    /\ baseline = <<>>
    /\ InitSortVars
    /\ InitProcVars

InitLookup == InitFetch \/ InitIngest \/ InitMiss

NextLookup ==
    \/ RefreshLoad
    \/ GrabEntry
    \/ RequestOk
    \/ RequestFailRetry
    \/ RequestFailLast
    \/ GrabReturn
    \/ Merge
    \/ OpenWrite
    \/ DumpEntry
    \/ CloseFile
    \/ FilterApply

SpecLookup == InitLookup /\ [][NextLookup]_vars

\* Two refreshPlayer runs over one store file, in any interleaving.
InitShared ==
    /\ pc = "idle"
    /\ caller = "none"
    /\ args = DefaultArgs
    /\ InitFetchVars
    /\ roster_idx = 1
    /\ artifact \in {FileOf(db) : db \in Stores}
    /\ database = <<>>
    /\ baseline = json_load(artifact)
    /\ InitQueryVars
    /\ InitSortVars
    /\ InitProcVars

NextShared ==
    \E p \in Procs :
        \/ PLoad(p)
        \/ PFetch(p)
        \/ PMerge(p)
        \/ POpenWrite(p)
        \/ PClose(p)

SpecShared == InitShared /\ [][NextShared]_vars

\* A query run of main over a store set up beforehand.  The stored replays
\* pair a tracked or an unknown player on each side, with scores below and
\* above the threshold of the thousand strategy; some of them also come on
\* an earlier date or with a duration of 0 instead of ten minutes.
Scored(n, s) == [Entry(n) EXCEPT !.score = s]

BlueSides == {<<Scored(1, s)>> : s \in {900, 1200, 10000}} \cup {<<Scored(Stranger, 900)>>}

OrangeSides == {<<Scored(2, 1200)>>, <<Scored(Stranger, 900)>>}

Usual == <<DateText(1900, 0), 600>>

Unusual == {<<DateText(1800, 0), 600>>, <<DateText(1900, 0), 0>>}

Match(b, o, occ) ==
    [Replay(NoId, occ[1], "ranked-duels",
            [Team(1, <<>>) EXCEPT !.players = b], [Team(0, <<>>) EXCEPT !.players = o])
        EXCEPT !.duration = occ[2]]

ScoredReplays ==
    {Match(b, o, Usual) : b \in BlueSides, o \in OrangeSides}
    \cup {Match(<<Scored(1, s)>>, <<Scored(Stranger, 900)>>, occ) :
            s \in {1200, 10000}, occ \in Unusual}

PlainReplays ==
    {Match(<<Scored(1, 900)>>, <<Scored(Stranger, 900)>>, occ) :
        occ \in {Usual, <<DateText(1800, 0), 600>>}}

\* The store that holds the replays gs under the ids 1, 2, ...
IdText(i) == <<"replay", i>>

StoreOf(gs) ==
    [i \in 1..Len(gs) |-> [key |-> IdText(i), val |-> [gs[i] EXCEPT !.id = IdText(i)]]]

QueryArgs ==
    {[DefaultArgs EXCEPT !.player1 = p, !.sort = s] :
        p \in {None, PLAYERS[1].name},
        s \in {None, "score", "thousand", "spm", "avg_speed", "car"}}

InitQuery ==
    /\ pc = "main_entry"
    /\ caller = "none"
    /\ args \in QueryArgs
    /\ artifact \in {FileOf(StoreOf(gs)) :
            gs \in SeqsUpTo(IF args.sort \in {"avg_speed", "car"}
                            THEN PlainReplays ELSE ScoredReplays, MaxGames)}
    /\ database = <<>>
    /\ baseline = <<>>
    /\ roster_idx = 1
    /\ InitFetchVars
    /\ InitQueryVars
    /\ InitSortVars
    /\ InitProcVars

NextQuery ==
    \/ MainLoad
    \/ ApplyStrategy
    \/ DetailRequest
    \/ Sort
    \/ ReportGame

SpecQuery == InitQuery /\ [][NextQuery]_vars

(***************************************************************************)
(* Properties of the filter.                                               *)
(***************************************************************************)
\* The tracked entities present in a replay: the roster names whose id is
\* the id of some player entry of either team.
Present(replay) ==
    {PLAYERS[i].name : i \in {j \in 1..Len(PLAYERS) :
        \E t \in {replay.blue, replay.orange} :
            \E k \in 1..Len(t.players) : t.players[k].id = Str(PLAYERS[j].id)}}

\* What each criterion asks of a replay.
MeetsDate(a, r) == DateParses(r.date) /\ Instant(r.date) >= Now - a.date * MonthHours
MeetsType(a, r) ==
    r.playlist_id = (CASE a.type = "1" -> "ranked-duels" [] a.type = "p" -> "private")
MeetsNotPrivate(r) == r.playlist_id # "private"
MeetsPlayer(n, r) == n \in Present(r)
MeetsStacked(a, r) == Cardinality(Present(r)) >= a.stacked_lobby

MeetsAll(a, r) ==
    /\ a.date # Unset => MeetsDate(a, r)
    /\ a.type # None => MeetsType(a, r)
    /\ a.remove_priv => MeetsNotPrivate(r)
    /\ a.player1 # None => MeetsPlayer(a.player1, r)
    /\ a.player2 # None => MeetsPlayer(a.player2, r)
    /\ a.stacked_lobby # Unset => MeetsStacked(a, r)

Selected(a, gs) == SelectSeq(gs, LAMBDA r : MeetsAll(a, r))

\* C8: filterGames returns exactly the input records that meet every
\* supplied criterion, in input order.
C8_FilterConjunction ==
    pc = "filtered" => filtered_games = Selected(args, input_games)

C8_Witness ==
    /\ pc = "filtered"
    /\ args.date # Unset /\ args.remove_priv /\ args.player1 # None
    /\ Len(input_games) = 2
    /\ Len(filtered_games) = 1
    /\ input_games[1].playlist_id = "private"
    /\ MeetsPlayer(args.player1, input_games[1])
    /\ filtered_games[1] = input_games[2]

\* C9: with threshold K set and nothing else, a replay passes exactly when
\* the number of distinct tracked entities present in it is at least K.
C9_StackedThreshold ==
    (/\ pc = "filtered"
     /\ args.stacked_lobby # Unset
     /\ args = [DefaultArgs EXCEPT !.stacked_lobby = args.stacked_lobby]) =>
        \A i \in 1..Len(input_games) :
            (\E j \in 1..Len(filtered_games) : filtered_games[j] = input_games[i])
                <=> Cardinality(Present(input_games[i])) >= args.stacked_lobby

C9_Witness ==
    /\ pc = "filtered"
    /\ args = [DefaultArgs EXCEPT !.stacked_lobby = 3]
    /\ Len(input_games) = 1
    /\ Cardinality(Present(input_games[1])) = 3
    /\ Len(input_games[1].blue.players) + Len(input_games[1].orange.players) = 4
    /\ filtered_games = input_games

(***************************************************************************)
(* Properties of the report.                                               *)
(***************************************************************************)
OnTeam(n, team) == \E k \in 1..Len(team.players) : team.players[k].id = nameToId(n)

Mine(r) == IF OnTeam(args.player1, r.blue) THEN r.blue ELSE r.orange
Theirs(r) == IF OnTeam(args.player1, r.blue) THEN r.orange ELSE r.blue

\* C10: for a named participant on one of the teams, the marker is WIN when
\* their team has more goals, LOSS when the other team has more, and
\* neither when the goals are equal.
C10_WinLossMarker ==
    (/\ pc = "reported"
     /\ winloss # "buggy game"
     /\ nameToId(args.player1) # NoId
     /\ OnTeam(args.player1, game.blue) # OnTeam(args.player1, game.orange)) =>
        /\ GoalsOf(Mine(game)) > GoalsOf(Theirs(game)) => winloss = "WIN"
        /\ GoalsOf(Mine(game)) < GoalsOf(Theirs(game)) => winloss = "LOSS"
        /\ GoalsOf(Mine(game)) = GoalsOf(Theirs(game)) => winloss \notin {"WIN", "LOSS"}

(***************************************************************************)
(* Properties of the query run.                                            *)
(***************************************************************************)
\* The replays that entered the sort step, and whether one is in its result.
Entered == filterGames(args, input_games)

InResult(g) == \E i \in 1..Len(filtered_games) : filtered_games[i].id = g.id

ResultOf(g) == filtered_games[CHOOSE i \in 1..Len(filtered_games) : filtered_games[i].id = g.id]

Keyed == pc \in {"sort", "report", "done"}

\* The entries of tracked entities in a replay.
TrackedEntries(g) ==
    {e \in {AllPlayers(g)[i] : i \in 1..Len(AllPlayers(g))} :
        \E n \in 1..Len(PLAYERS) : e.id = Str(PLAYERS[n].id)}

\* The numeric value of a key.
KeyValue(k) == IF k.kind = "num" THEN k.num ELSE IntOf(k.text)

\* C11: under spm, a replay with a tracked entity and a duration has the
\* whole number of the largest score per minute of its tracked entities as
\* its key, and a replay for which there is no such value is not in the
\* result.
C11_SpmKey ==
    (Keyed /\ args.sort = "spm") =>
        \A n \in 1..Len(Entered) :
            LET g == Entered[n]
                rates == {(e.score * 60) \div g.duration : e \in TrackedEntries(g)}
            IN IF TrackedEntries(g) # {} /\ g.duration # 0
               THEN /\ InResult(g)
                    /\ KeyValue(ResultOf(g).sort) \in rates
                    /\ \A v \in rates : v <= KeyValue(ResultOf(g).sort)
               ELSE ~InResult(g)

\* The sort of line 512 has run to its end.
Sorted == pc \in {"report", "done"} /\ args.sort # None

PlaceOf(g) == CHOOSE k \in 1..Len(filtered_games) : filtered_games[k].id = g.id

\* C12: after the sort the result holds the records that entered it, each
\* once, and two records with equal keys are in the order they had before.
C12_SortStable ==
    Sorted =>
        /\ Len(filtered_games) = Len(keyed)
        /\ \A i \in 1..Len(keyed) : \E k \in 1..Len(filtered_games) : filtered_games[k] = keyed[i]
        /\ \A i, j \in 1..Len(keyed) :
             (i < j /\ keyed[i].sort = keyed[j].sort) => PlaceOf(keyed[i]) < PlaceOf(keyed[j])

C12_Witness ==
    /\ Sorted
    /\ args.sort = "score"
    /\ Len(keyed) = MaxGames
    /\ keyed[1].sort = keyed[2].sort
    /\ keyed[1].sort.kind = "num"
    /\ keyed[1].date # keyed[2].date
    /\ filtered_games = keyed

\* A replay whose team or player substructure cannot be read.
Malformed(g) ==
    \/ g.blue.form = "null" \/ g.orange.form = "null"
    \/ ~Readable(g.blue) \/ ~Readable(g.orange)

AsksParticipants(a) == a.player1 # None \/ a.player2 # None \/ a.stacked_lobby # Unset

\* C13: filterGames returns for every input; when a participant or
\* stacked-lobby criterion is set no malformed replay is in the result, and
\* the result is what the filter returns for the well-formed replays alone.
C13_MalformedDegrades ==
    pc \in {"filtered", "raised"} =>
        /\ pc = "filtered"
        /\ AsksParticipants(args) =>
             /\ \A i \in 1..Len(filtered_games) : ~Malformed(filtered_games[i])
             /\ filtered_games =
                    filterGames(args, SelectSeq(input_games, LAMBDA g : ~Malformed(g)))

\* The name being looked up is not in the roster.
Missed == args.player1 = UnknownName

\* C14: for a name that is not in the roster grabGames requests nothing and
\* returns the empty list, a refreshPlayer run for it keeps the store as
\* loaded and writes that content back, and the filter by an unknown name
\* returns no replay.
C14_LookupMiss ==
    /\ []((Missed /\ caller \in {"direct", "refresh"}) =>
            /\ pc # "request"
            /\ issued = 0
            /\ games = <<>>
            /\ database = baseline)
    /\ [][(Missed /\ caller = "refresh" /\ pc = "dump" /\ pc' = "idle") =>
            (Parses(artifact') /\ json_load(artifact') = baseline)]_vars
    /\ []((pc = "filtered" /\ UnknownName \in {args.player1, args.player2}) =>
            filtered_games = <<>>)

C14_Witness ==
    /\ Missed
    /\ caller = "refresh"
    /\ pc = "dump"
    /\ baseline # <<>>
    /\ artifact.entries = baseline

\* C15: no step of a query run changes the store's file, and no stored
\* replay carries a sort key, whatever the filter and the strategy.
C15_QueryKeepsStore ==
    /\ [][artifact' = artifact]_vars
    /\ [](\A i \in 1..Len(artifact.entries) : artifact.entries[i].val.sort = NoKey)

C15_Witness ==
    /\ pc = "done"
    /\ args.sort = "thousand"
    /\ args.player1 # None
    /\ Len(artifact.entries) = MaxGames
    /\ Len(output) = 1
    /\ output[1].sort # Sentinel
    /\ filtered_games[1].sort = output[1].sort

\* The scores above the threshold that tracked entities have in a replay.
Qualifying(g) == {e.score : e \in {t \in TrackedEntries(g) : t.score > Thousand}}

\* C16: under thousand, the result holds exactly the filtered replays in
\* which a tracked entity scored above 1000, each with the largest such
\* score as its key.
C16_ThousandKey ==
    (Keyed /\ args.sort = "thousand") =>
        /\ \A n \in 1..Len(Entered) :
             IF Qualifying(Entered[n]) # {}
             THEN /\ InResult(Entered[n])
                  /\ KeyValue(ResultOf(Entered[n]).sort) \in Qualifying(Entered[n])
                  /\ \A v \in Qualifying(Entered[n]) : v <= KeyValue(ResultOf(Entered[n]).sort)
             ELSE ~InResult(Entered[n])
        /\ \A i \in 1..Len(filtered_games) :
             \E n \in 1..Len(Entered) : Entered[n].id = filtered_games[i].id
        /\ Len(filtered_games) <= Len(Entered)

C16_Witness ==
    /\ pc = "sort"
    /\ args.sort = "thousand"
    /\ Len(Entered) = MaxGames
    /\ Len(filtered_games) = 1
    /\ Cardinality(Qualifying(filtered_games[1])) = 2
    /\ \E n \in 1..Len(Entered) :
         TrackedEntries(Entered[n]) # {} /\ Qualifying(Entered[n]) = {}

NumericStrategies == {"score", "spm", "thousand", "avg_speed"}

\* C17: under the numeric strategies the sort returns, also when some keys
\* are the sentinel, and the reported order is ascending by the numeric
\* value of the keys.
C17_NumericOrder ==
    args.sort \in NumericStrategies =>
        /\ error # "TypeError"
        /\ Sorted =>
             \A i, j \in 1..Len(filtered_games) :
                i < j => KeyValue(filtered_games[i].sort) <= KeyValue(filtered_games[j].sort)

DetailFailed(i) == details[i] \in {"noconn", "nonjson"}

\* C18: under avg_speed and car, a replay whose detail request failed has
\* the sentinel key, and the run goes on through the remaining requests,
\* the sort and the report without ending on an exception.
C18_DetailFailureTolerated ==
    (args.sort \in {"avg_speed", "car"} /\ \E i \in 1..Len(details) : DetailFailed(i)) =>
        /\ pc # "aborted"
        /\ pc \in {"detail", "sort"} =>
             \A i \in 1..Len(details) : DetailFailed(i) => filtered_games[i].sort = Sentinel

(***************************************************************************)
(* Properties of two runs that share the store's file.                     *)
(***************************************************************************)
Finished == \A p \in Procs : proc[p].pc \in {"done", "failed"}

\* The entries that the file holds.
Stored == DictOf(artifact.entries)

\* What process p wrote is in the file.
Survives(p) ==
    \A i \in 1..Len(proc[p].database) :
        /\ proc[p].database[i].key \in Keys(Stored)
        /\ Value(Stored, proc[p].database[i].key) = proc[p].database[i].val

\* C19: when the two runs did not overlap (the second loaded after the
\* first had written), the file holds every record that either run wrote;
\* the witness is a pair of overlapping runs after which a record that one
\* of them wrote is gone.
C19_SerializedKeepsAll ==
    (Finished /\ ~overlapped) =>
        /\ artifact.closed
        /\ \A p \in Procs : proc[p].pc = "done" /\ Survives(p)

C19_Witness ==
    /\ Finished
    /\ overlapped
    /\ \A p \in Procs : proc[p].pc = "done" /\ proc[p].loaded = baseline
    /\ artifact.closed
    /\ \E p \in Procs :
         /\ ~Survives(p)
         /\ \E i \in 1..Len(proc[p].replays) :
              /\ proc[p].replays[i].id \notin Keys(baseline)
              /\ proc[p].replays[i].id \notin Keys(Stored)
    /\ \A p \in Procs : \A i \in 1..Len(baseline) : baseline[i] \in
            {proc[p].database[k] : k \in 1..Len(proc[p].database)}

(***************************************************************************)
(* Properties of the catch-up run.                                         *)
(***************************************************************************)
\* The newest date among the records of a store.
LatestDate(db) ==
    CHOOSE d \in {db[i].val.date : i \in 1..Len(db)} :
        \A e \in {db[i].val.date : i \in 1..Len(db)} : e <= d

\* C20: throughout a buildDatabase run, for every roster entity, the date
\* floor of the fetch is one day before the newest date of the store as it
\* was loaded, whatever the run has inserted since.
C20_FloorFixed ==
    caller = "build" =>
        /\ baseline # <<>>
        /\ args.date = LatestDate(baseline) - 1

C20_Witness ==
    /\ caller = "build"
    /\ pc = "request"
    /\ args.player1 = PLAYERS[Len(PLAYERS)].name
    /\ Len(database) > Len(baseline)
    /\ LatestDate(database) > LatestDate(baseline)
    /\ args.date = LatestDate(baseline) - 1

\* The fetch for the current roster entity ended on a failed request, and
\* what it returned is about to be merged.
EndedEarly == caller = "build" /\ pc = "merge" /\ last_outcome # "ok"

Fetching == pc \in {"grab_entry", "request", "grab_return", "merge"}

\* C21: in a buildDatabase run a fetch that ends early on request failures
\* has its records merged, the run goes on to the next roster entity in
\* roster order, the file is written only after the last entity, and the
\* run ends with the file holding the store with everything merged.
C21_BuildSurvivesFailures ==
    /\ [](caller = "build" =>
            /\ Fetching =>
                 (roster_idx <= Len(PLAYERS) /\ args.player1 = PLAYERS[roster_idx].name)
            /\ (Fetching \/ pc = "build_next") => artifact = FileOf(baseline)
            /\ pc \in {"open_write", "dump"} => roster_idx = Len(PLAYERS) + 1)
    /\ [][/\ caller = "build" => Kept(database, database')
          /\ EndedEarly =>
               /\ \A i \in 1..Len(games) : games[i].id \in Keys(database')
               /\ roster_idx' = roster_idx + 1
               /\ pc' = IF roster_idx < Len(PLAYERS) THEN "build_next" ELSE "open_write"]_vars
    /\ (EndedEarly ~> (pc = "idle" /\ artifact = FileOf(database)))

C21_Witness ==
    /\ caller = "build"
    /\ pc = "build_next"
    /\ roster_idx = 2
    /\ last_outcome # "ok"
    /\ games # <<>>
    /\ \A i \in 1..Len(games) : games[i].id \in Keys(database)
    /\ Len(database) > Len(baseline)

====
